---- MODULE Spec2Model ----
(***************************************************************************)
(* Gradience: the GNOME Shell theme generator                              *)
(* (src/gradience/backend/theming/shell.py, class ShellTheme).             *)
(*                                                                         *)
(* Text is modelled at character level: a Python str is a sequence of      *)
(* one-character strings, so that startswith, slicing, int(), re.search    *)
(* and str.replace are computed the way the interpreter computes them.     *)
(* Python's None is the empty tuple <<>> and an integer n is <<n>>.        *)
(***************************************************************************)
EXTENDS Integers, Sequences, FiniteSets, TLC

VARIABLES
    shell_ver,         \* the version string get_shell_version() returns
    colors_template,   \* [installed version -> content of colors.template]
    colors_source,     \* [installed version -> content of _colors.scss]
    switches_source,   \* [installed version -> content tag of _switches.scss]
    switch_on_source,  \* [installed version -> content of toggle-on.svg]
    out,               \* the per-user theme directory (output_dir)
    settings_name,     \* user-theme schema, key "name"
    writes,            \* set_string("name", .) calls of the current run, in order
    inst,              \* the ShellTheme instance of the current run
    pc,                \* position of the caller inside apply_theme
    result,            \* outcome of the last constructor / apply_theme call
    log,               \* messages logged by the current run, in order
    launch,            \* what Gio.Subprocess.new did in the current run
    procs,             \* sassc processes started and not yet exited
    steps,             \* pipeline steps completed by the current run, in order
    enoent,            \* a process wrote into a directory that did not exist
    arg,               \* the shell_version argument of the current run
    recolor_calls,     \* per recolor_assets call: toggle-on.svg before, accent
    runs               \* theme-apply requests so far

vars == <<shell_ver, colors_template, colors_source, switches_source,
          switch_on_source, out, settings_name, writes, inst, pc, result,
          log, launch, procs, steps, enoent, arg, recolor_calls, runs>>

---------------------------------------------------------------------------
(* Bounds *)

\* theme-apply requests (instances constructed) in one behaviour
MaxRuns == 2
\* chunks a generated colors.template is concatenated from (SpecRender)
MaxChunks == 3
\* chunks a generated toggle-on.svg is concatenated from (SpecRecolor)
MaxSvgChunks == 3
\* consecutive recolor_assets calls on one install (SpecRecolor)
MaxRecolorCalls == 2

---------------------------------------------------------------------------
(* Python values and str primitives *)

None == <<>>
Some(n) == <<n>>

Min(a, b) == IF a < b THEN a ELSE b

\* s[:n]
Prefix(s, n) == SubSeq(s, 1, Min(n, Len(s)))

\* s[n:] (0-based n)
Suffix(s, n) == SubSeq(s, n + 1, Len(s))

\* s.startswith(p)
StartsWith(s, p) == Len(s) >= Len(p) /\ SubSeq(s, 1, Len(p)) = p

\* the first index >= from at which p occurs in s, 0 when there is none
RECURSIVE FindFrom(_, _, _)
FindFrom(s, p, from) ==
    IF from + Len(p) - 1 > Len(s) THEN 0
    ELSE IF SubSeq(s, from, from + Len(p) - 1) = p THEN from
    ELSE FindFrom(s, p, from + 1)

Contains(s, p) == FindFrom(s, p, 1) # 0

\* s.replace(old, new), old non-empty: every non-overlapping occurrence,
\* scanning left to right
RECURSIVE Replace(_, _, _)
Replace(s, old, new) ==
    IF Len(s) < Len(old) THEN s
    ELSE IF SubSeq(s, 1, Len(old)) = old
         THEN new \o Replace(Suffix(s, Len(old)), old, new)
         ELSE <<Head(s)>> \o Replace(Tail(s), old, new)

\* s.count(p), p non-empty
RECURSIVE Count(_, _)
Count(s, p) ==
    IF Len(s) < Len(p) THEN 0
    ELSE IF SubSeq(s, 1, Len(p)) = p
         THEN 1 + Count(Suffix(s, Len(p)), p)
         ELSE Count(Tail(s), p)

Digits == <<"0", "1", "2", "3", "4", "5", "6", "7", "8", "9">>

DigitValue(c) == (CHOOSE i \in 1..10 : Digits[i] = c) - 1

IsDigit(c) == \E i \in 1..10 : Digits[i] = c

\* int(s) accepts a non-empty run of decimal digits
IsInt(s) == Len(s) > 0 /\ \A i \in 1..Len(s) : IsDigit(s[i])

RECURSIVE ToInt(_)
ToInt(s) ==
    IF Len(s) = 0 THEN 0
    ELSE 10 * ToInt(SubSeq(s, 1, Len(s) - 1)) + DigitValue(s[Len(s)])

---------------------------------------------------------------------------
(* Construction: ShellTheme.__init__ and detect_shell_version *)

shell_versions == {42, 43}

Raised(kind) == [status |-> "raised", kind |-> kind]
Returned == [status |-> "ok", kind |-> ""]
NoCall == [status |-> "none", kind |-> ""]

\* detect_shell_version: the outcome and the version_target it leaves
\* (the class attribute None unless assigned)
detect_shell_version(ver) ==
    IF StartsWith(ver, <<"4">>)
    THEN IF ~IsInt(Prefix(ver, 2))
         THEN [res |-> Raised("ValueError"), version_target |-> None]
         ELSE IF ToInt(Prefix(ver, 2)) \in shell_versions
              THEN [res |-> Returned,
                    version_target |-> Some(ToInt(Prefix(ver, 2)))]
              ELSE [res |-> Returned, version_target |-> None]
    ELSE IF StartsWith(ver, <<"3">>)
         \* the f-string names shell_version, which is not in scope here
         THEN [res |-> Raised("NameError"), version_target |-> None]
         ELSE [res |-> Returned, version_target |-> None]

\* Python truthiness of the shell_version argument
Truthy(shell_version) == shell_version # None /\ shell_version # Some(0)

\* __init__(shell_version)
ShellTheme_init(shell_version, ver) ==
    IF ~Truthy(shell_version)
    THEN detect_shell_version(ver)
    ELSE IF shell_version[1] \in shell_versions
         THEN [res |-> Returned, version_target |-> shell_version]
         ELSE [res |-> Raised("Exception"), version_target |-> None]

---------------------------------------------------------------------------
(* Template rendering: insert_variables *)

LBRACES == <<"{", "{">>
RBRACES == <<"}", "}">>
NEWLINE == <<"\n">>

\* iteration over a text file: each line keeps its terminating newline
RECURSIVE Lines(_)
Lines(s) ==
    IF Len(s) = 0 THEN <<>>
    ELSE LET i == FindFrom(s, NEWLINE, 1)
         IN  IF i = 0 THEN <<s>>
             ELSE <<SubSeq(s, 1, i)>> \o Lines(Suffix(s, i))

\* the lazy group (.*?) of a match that opened at i: the index of the first
\* "}}" at or after j with no newline before it, 0 when there is none
RECURSIVE LazyClose(_, _)
LazyClose(line, j) ==
    IF j + 1 > Len(line) THEN 0
    ELSE IF SubSeq(line, j, j + 1) = RBRACES THEN j
    ELSE IF line[j] = "\n" THEN 0
    ELSE LazyClose(line, j + 1)

\* re.search(r"{{(.*?)}}", line): the leftmost position where the pattern
\* matches; found = FALSE is Python's None
RECURSIVE SearchFrom(_, _)
SearchFrom(line, i) ==
    IF i + 3 > Len(line) THEN [found |-> FALSE, key |-> <<>>]
    ELSE IF SubSeq(line, i, i + 1) = LBRACES /\ LazyClose(line, i + 2) # 0
         THEN [found |-> TRUE,
               key |-> SubSeq(line, i + 2, LazyClose(line, i + 2) - 1)]
         ELSE SearchFrom(line, i + 1)

template_regex(line) == SearchFrom(line, 1)

\* a variant that looks the key up with a default: variables.get(key, "")
insert_line_default(line, variables) ==
    LET template_match == template_regex(line)
        key == template_match.key
    IN  IF template_match.found
        THEN [ok |-> TRUE,
              text |-> Replace(line, LBRACES \o key \o RBRACES,
                               IF key \in DOMAIN variables
                               THEN variables[key] ELSE <<>>)]
        ELSE [ok |-> TRUE, text |-> line]

\* a variant that replaces one occurrence only: line.replace(old, new, 1)
insert_line_first_only(line, variables) ==
    LET template_match == template_regex(line)
        key == template_match.key
        old == LBRACES \o key \o RBRACES
        at == FindFrom(line, old, 1)
    IN  IF template_match.found
        THEN IF key \in DOMAIN variables
             THEN [ok |-> TRUE,
                   text |-> SubSeq(line, 1, at - 1) \o variables[key]
                            \o Suffix(line, at + Len(old) - 1)]
             ELSE [ok |-> FALSE, text |-> <<>>]
        ELSE [ok |-> TRUE, text |-> line]

\* the body of the loop for one line; ok = FALSE is the KeyError of
\* self.variables[key]
insert_line(line, variables) ==
    LET template_match == template_regex(line)
        key == template_match.key
    IN  IF template_match.found
        THEN IF key \in DOMAIN variables
             THEN [ok |-> TRUE,
                   text |-> Replace(line, LBRACES \o key \o RBRACES,
                                    variables[key])]
             ELSE [ok |-> FALSE, text |-> <<>>]
        ELSE [ok |-> TRUE, text |-> line]

RECURSIVE RenderLines(_, _)
RenderLines(lines, variables) ==
    IF Len(lines) = 0 THEN [ok |-> TRUE, text |-> <<>>]
    ELSE LET first == insert_line(Head(lines), variables)
             rest == RenderLines(Tail(lines), variables)
         IN  IF first.ok /\ rest.ok
             THEN [ok |-> TRUE, text |-> first.text \o rest.text]
             ELSE [ok |-> FALSE, text |-> <<>>]

\* colors_content as it stands when the template has been read to the end
insert_variables(template, variables) ==
    RenderLines(Lines(template), variables)

---------------------------------------------------------------------------
(* Asset recoloring: the str.replace of recolor_assets *)

FILL_PREFIX == <<"f", "i", "l", "l", ":">>
DEFAULT_ACCENT == <<"#", "3", "5", "8", "4", "e", "4">>
FILL_DEFAULT == FILL_PREFIX \o DEFAULT_ACCENT

\* a variant that replaces the colour wherever it stands, not only as a fill
recolor_any_use(switch_on_svg, accent_bg) ==
    Replace(switch_on_svg, DEFAULT_ACCENT, accent_bg)

recolor(switch_on_svg, accent_bg) ==
    Replace(switch_on_svg, FILL_DEFAULT, FILL_PREFIX \o accent_bg)

---------------------------------------------------------------------------
(* Inputs *)

ACCENT_KEY ==
    <<"a", "c", "c", "e", "n", "t", "_", "b", "g", "_", "c", "o", "l",
      "o", "r">>
WINDOW_KEY ==
    <<"w", "i", "n", "d", "o", "w", "_", "b", "g", "_", "c", "o", "l",
      "o", "r">>
RED == <<"#", "f", "f", "0", "0", "0", "0">>
WHITE == <<"#", "f", "a", "f", "a", "f", "a">>

\* preset.variables
PresetFull == (ACCENT_KEY :> RED) @@ (WINDOW_KEY :> WHITE)
PresetDefaultAccent == (ACCENT_KEY :> DEFAULT_ACCENT) @@ (WINDOW_KEY :> WHITE)
PresetNoAccent == (WINDOW_KEY :> WHITE)
PresetNoWindow == (ACCENT_KEY :> RED)
Presets == {PresetFull, PresetDefaultAccent, PresetNoAccent, PresetNoWindow}

\* the shell_version argument: omitted (None) or an integer
ExplicitVersions == {None, Some(0), Some(41), Some(42), Some(43), Some(44)}

\* what the running session may report
DetectedVersions ==
    { <<"3", ".", "3", "8">>, <<"4", "0", ".", "0">>, <<"4", "2", ".", "5">>,
      <<"4", "3", ".", "1">>, <<"4", "4", ".", "1">>, <<"5", "0", ".", "0">>,
      <<"4", ".", "0">> }

\* the data directory as installed
PristineSvg ==
    <<"<", "p", "a", "t", "h", " ", "s", "t", "y", "l", "e", "=", "\"",
      "f", "i", "l", "l", ":", "#", "3", "5", "8", "4", "e", "4", ";",
      "\"", "/", ">">>
Template43 ==
    <<"$", "a", ":", "{", "{", "a", "c", "c", "e", "n", "t", "_", "b",
      "g", "_", "c", "o", "l", "o", "r", "}", "}", ";", "\n", "$", "w",
      ":", "{", "{", "w", "i", "n", "d", "o", "w", "_", "b", "g", "_",
      "c", "o", "l", "o", "r", "}", "}", ";", "\n">>
Template42 ==
    <<"$", "w", ":", "{", "{", "w", "i", "n", "d", "o", "w", "_", "b",
      "g", "_", "c", "o", "l", "o", "r", "}", "}", ";", "\n", "$", "f",
      "g", ":", "#", "f", "f", "f", ";", "\n">>
StaleColors == <<"$", "a", ":", "#", "0", "0", "0", ";", "\n">>

InstalledTemplates == (42 :> Template42) @@ (43 :> Template43)

PristineOut ==
    [dir |-> FALSE, assets |-> FALSE, css |-> FALSE,
     on_exists |-> FALSE, on |-> <<>>, off_exists |-> FALSE]

GRADIENCE_SHELL == "gradience-shell"

NoInstance ==
    [exists |-> FALSE, version_target |-> None, variables |-> <<>>,
     used |-> FALSE]

---------------------------------------------------------------------------
(* The state after installation, before the first theme-apply request *)

Init ==
    /\ shell_ver \in DetectedVersions
    /\ colors_template = InstalledTemplates
    /\ colors_source = [v \in shell_versions |-> StaleColors]
    /\ switches_source = [v \in shell_versions |-> "stale"]
    /\ switch_on_source = [v \in shell_versions |-> PristineSvg]
    /\ out \in {PristineOut, [PristineOut EXCEPT !.dir = TRUE]}
    /\ settings_name \in {"", GRADIENCE_SHELL}
    /\ writes = <<>>
    /\ inst = NoInstance
    /\ pc = "idle"
    /\ result = NoCall
    /\ log = <<>>
    /\ launch = "none"
    /\ procs = 0
    /\ steps = <<>>
    /\ enoent = FALSE
    /\ arg = None
    /\ recolor_calls = <<>>
    /\ runs = 0

---------------------------------------------------------------------------
(* The pipeline: apply_theme -> create_theme *)

\* a variant that starts the compiler before the output directory is made
create_theme_launch_first ==
    <<"capture", "render", "launch", "dirs", "recolor", "activate">>

\* the statements of create_theme, in program order
create_theme ==
    <<"capture", "render", "dirs", "launch", "recolor", "activate">>

\* the statement control reaches when `step` returns; "idle": apply_theme
\* has returned to its caller
After(step) ==
    LET i == CHOOSE k \in 1..Len(create_theme) : create_theme[k] = step
    IN  IF i = Len(create_theme) THEN "idle" ELSE create_theme[i + 1]

\* the except clause of apply_theme: what it logs for an exception of `kind`
\* before the bare raise
apply_theme(kind) ==
    IF kind = "GError"
    THEN <<"Failed to apply a theme for GNOME Shell.">>
    ELSE <<>>

\* `step` returned normally
Advance(step) ==
    /\ pc' = After(step)
    /\ steps' = Append(steps, step)
    /\ result' = IF After(step) = "idle" THEN Returned ELSE result

\* an exception of `kind` leaves create_theme, after `msgs` were logged
Raise(kind, msgs) ==
    /\ pc' = "idle"
    /\ result' = Raised(kind)
    /\ log' = log \o msgs \o apply_theme(kind)
    /\ steps' = steps

\* ShellTheme(shell_version): a new theme-apply request
Construct ==
    /\ pc = "idle"
    /\ runs < MaxRuns
    /\ \E shell_version \in ExplicitVersions :
          LET r == ShellTheme_init(shell_version, shell_ver)
          IN  /\ arg' = shell_version
              /\ result' = r.res
              /\ inst' = IF r.res.status = "ok"
                         THEN [exists |-> TRUE,
                               version_target |-> r.version_target,
                               variables |-> <<>>, used |-> FALSE]
                         ELSE NoInstance
    /\ runs' = runs + 1
    /\ writes' = <<>>
    /\ log' = <<>>
    /\ launch' = "none"
    /\ steps' = <<>>
    /\ UNCHANGED <<shell_ver, colors_template, colors_source, switches_source,
                   switch_on_source, out, settings_name, pc, procs, enoent,
                   recolor_calls>>

\* apply_theme(preset) is entered; create_theme stores preset.variables
\* (an instance serves one theme-apply request)
Capture ==
    /\ pc = "idle"
    /\ inst.exists
    /\ ~inst.used
    /\ \E preset \in Presets :
          inst' = [inst EXCEPT !.variables = preset, !.used = TRUE]
    /\ pc' = After("capture")
    /\ steps' = <<"capture">>
    /\ result' = NoCall
    /\ UNCHANGED <<shell_ver, colors_template, colors_source, switches_source,
                   switch_on_source, out, settings_name, writes, log, launch,
                   procs, enoent, arg, recolor_calls, runs>>

\* the source tree <datadir>/gradience/shell/<version_target> exists
SourceTreeExists == inst.version_target # None

\* self.insert_variables()
InsertVariables ==
    /\ pc = "render"
    /\ \/ \* open(colors_template) fails: no templates/None directory
          /\ ~SourceTreeExists
          /\ Raise("OSError", <<>>)
          /\ UNCHANGED colors_source
       \/ /\ SourceTreeExists
          /\ LET v == inst.version_target[1]
                 r == insert_variables(colors_template[v], inst.variables)
             IN  \/ /\ ~r.ok
                    /\ Raise("KeyError", <<>>)
                    /\ UNCHANGED colors_source
                 \/ /\ r.ok
                    /\ colors_source' = [colors_source EXCEPT ![v] = r.text]
                    /\ Advance("render")
                    /\ UNCHANGED log
                 \/ \* open(colors_source, "w") fails: nothing is truncated
                    /\ r.ok
                    /\ Raise("OSError", <<>>)
                    /\ UNCHANGED colors_source
    /\ UNCHANGED <<shell_ver, colors_template, switches_source,
                   switch_on_source, out, settings_name, writes, inst, launch,
                   procs, enoent, arg, recolor_calls, runs>>

\* if not os.path.exists(output_dir): make_directory_with_parents
PrepareOutputDir ==
    /\ pc = "dirs"
    /\ \/ /\ out.dir
          /\ Advance("dirs")
          /\ UNCHANGED <<out, log>>
       \/ /\ ~out.dir
          /\ out' = [out EXCEPT !.dir = TRUE]
          /\ Advance("dirs")
          /\ UNCHANGED log
       \/ /\ ~out.dir
          /\ Raise("GError", <<"Unable to create directories.">>)
          /\ UNCHANGED out
    /\ UNCHANGED <<shell_ver, colors_template, colors_source, switches_source,
                   switch_on_source, settings_name, writes, inst, launch,
                   procs, enoent, arg, recolor_calls, runs>>

\* a variant that logs and re-raises, as the directory creation does
compile_sass_reraise ==
    [logs |-> <<"Failed to compile SCSS source files using external sassc program.">>,
     raises |-> TRUE]

\* what compile_sass does when Gio.Subprocess.new raises GLib.GError:
\* the messages it logs and whether the error leaves compile_sass
compile_sass ==
    [logs |-> <<"Failed to compile SCSS source files using external sassc program.">>,
     raises |-> FALSE]

\* self.compile_sass(main_source, output_dir/gnome-shell.css)
CompileSass ==
    /\ pc = "launch"
    /\ \/ \* the process is started; nothing waits for it
          /\ launch' = "started"
          /\ procs' = procs + 1
          /\ Advance("launch")
          /\ UNCHANGED log
       \/ \* Gio.Subprocess.new raises GLib.GError
          /\ launch' = "failed"
          /\ procs' = procs
          /\ IF compile_sass.raises
             THEN Raise("GError", compile_sass.logs)
             ELSE /\ Advance("launch")
                  /\ log' = log \o compile_sass.logs
    /\ UNCHANGED <<shell_ver, colors_template, colors_source, switches_source,
                   switch_on_source, out, settings_name, writes, inst, enoent,
                   arg, recolor_calls, runs>>

\* a started sassc process exits: it wrote gnome-shell.css, or it failed
SasscExit ==
    /\ procs > 0
    /\ procs' = procs - 1
    /\ \/ /\ out' = [out EXCEPT !.css = out.dir]
          /\ enoent' = (enoent \/ ~out.dir)
       \/ UNCHANGED <<out, enoent>>
    /\ UNCHANGED <<shell_ver, colors_template, colors_source, switches_source,
                   switch_on_source, settings_name, writes, inst, pc, result,
                   log, launch, steps, arg, recolor_calls, runs>>

\* self.recolor_assets()
\* (control reaches it only after insert_variables read from the source
\* tree, so the tree exists)
RecolorAssets ==
    /\ pc = "recolor"
    /\ \/ \* self.variables["accent_bg_color"] raises KeyError
          /\ ACCENT_KEY \notin DOMAIN inst.variables
          /\ Raise("KeyError", <<>>)
          /\ UNCHANGED <<switches_source, switch_on_source, out,
                         recolor_calls>>
       \/ /\ ACCENT_KEY \in DOMAIN inst.variables
          /\ LET v == inst.version_target[1]
                 accent_bg == inst.variables[ACCENT_KEY]
                 switch_on_svg == recolor(switch_on_source[v], accent_bg)
                 copied == [out EXCEPT !.dir = TRUE, !.assets = TRUE,
                                       !.on_exists = TRUE,
                                       !.on = switch_on_svg,
                                       !.off_exists = TRUE]
             IN  /\ switches_source' =
                        [switches_source EXCEPT ![v] = "switches.template"]
                 /\ switch_on_source' =
                        [switch_on_source EXCEPT ![v] = switch_on_svg]
                 /\ recolor_calls' =
                        Append(recolor_calls,
                               [before |-> switch_on_source[v],
                                accent |-> accent_bg])
                 /\ \/ /\ out.assets
                       /\ out' = copied
                       /\ Advance("recolor")
                       /\ UNCHANGED log
                    \/ /\ ~out.assets
                       /\ out' = copied
                       /\ Advance("recolor")
                       /\ UNCHANGED log
                    \/ \* make_directory_with_parents raises GLib.GError
                       /\ ~out.assets
                       /\ Raise("GError", <<"Unable to create directories.">>)
                       /\ UNCHANGED out
    /\ UNCHANGED <<shell_ver, colors_template, colors_source, settings_name,
                   writes, inst, launch, procs, enoent, arg, runs>>

\* a variant without the reset to the empty string
set_shell_theme_no_reset == <<GRADIENCE_SHELL>>

\* the values set_shell_theme passes to settings.set_string("name", .),
\* in order
set_shell_theme == <<"", GRADIENCE_SHELL>>

\* self.set_shell_theme()
SetShellTheme ==
    /\ pc = "activate"
    /\ writes' = writes \o set_shell_theme
    /\ settings_name' = set_shell_theme[Len(set_shell_theme)]
    /\ Advance("activate")
    /\ UNCHANGED <<shell_ver, colors_template, colors_source, switches_source,
                   switch_on_source, out, inst, log, launch, procs, enoent,
                   arg, recolor_calls, runs>>

Pipeline ==
    \/ InsertVariables
    \/ PrepareOutputDir
    \/ CompileSass
    \/ RecolorAssets
    \/ SetShellTheme
    \/ SasscExit

Next ==
    \/ Construct
    \/ Capture
    \/ Pipeline

Spec == Init /\ [][Next]_vars

---------------------------------------------------------------------------
(* Rendering over generated templates: the pipeline from insert_variables *)
(* on, for every colors.template built from a few chunks                  *)

\* every concatenation of at most n chunks
RECURSIVE Concats(_, _)
Concats(chunks, n) ==
    IF n = 0 THEN {<<>>}
    ELSE LET shorter == Concats(chunks, n - 1)
         IN  shorter \cup {s \o c : s \in shorter, c \in chunks}

KEY_A == <<"a">>
KEY_B == <<"b">>
Placeholder(key) == LBRACES \o key \o RBRACES

TemplateChunks ==
    {Placeholder(KEY_A), Placeholder(KEY_B), LBRACES, RBRACES,
     <<"a">>, <<";">>, NEWLINE}

GeneratedTemplates == Concats(TemplateChunks, MaxChunks)

RenderPresets ==
    { (KEY_A :> RED) @@ (KEY_B :> WHITE) @@ (ACCENT_KEY :> RED),
      (KEY_A :> RED) @@ (ACCENT_KEY :> RED),
      (KEY_B :> WHITE) @@ (ACCENT_KEY :> RED) }

\* a theme directory left by an earlier apply
ExistingOut ==
    [dir |-> TRUE, assets |-> TRUE, css |-> TRUE,
     on_exists |-> TRUE, on |-> PristineSvg, off_exists |-> TRUE]

\* an instance for shell 43 inside apply_theme, variables captured
InPipeline(at, preset) ==
    /\ shell_ver = <<"4", "3", ".", "1">>
    /\ colors_source = [v \in shell_versions |-> StaleColors]
    /\ switches_source = [v \in shell_versions |-> "stale"]
    /\ settings_name = ""
    /\ writes = <<>>
    /\ inst = [exists |-> TRUE, version_target |-> Some(43),
               variables |-> preset, used |-> TRUE]
    /\ pc = at
    /\ result = NoCall
    /\ log = <<>>
    /\ launch = "none"
    /\ procs = 0
    /\ enoent = FALSE
    /\ arg = Some(43)
    /\ recolor_calls = <<>>
    /\ runs = 1

InitRender ==
    /\ \E preset \in RenderPresets : InPipeline("render", preset)
    /\ \E t \in GeneratedTemplates :
          colors_template = [InstalledTemplates EXCEPT ![43] = t]
    /\ switch_on_source = [v \in shell_versions |-> PristineSvg]
    /\ out \in {PristineOut, ExistingOut}
    /\ steps = <<"capture">>

SpecRender == InitRender /\ [][Pipeline]_vars

---------------------------------------------------------------------------
(* Recoloring over generated assets: recolor_assets called again and again *)
(* on the same install, without restoring toggle-on.svg                    *)

SvgChunks ==
    {FILL_DEFAULT, FILL_PREFIX, DEFAULT_ACCENT, <<"f", "f">>, <<";">>,
     <<"i", "l", "l", ":">>}

GeneratedSvgs == Concats(SvgChunks, MaxSvgChunks) \cup {PristineSvg}

RecolorPresets ==
    { (ACCENT_KEY :> RED),
      (ACCENT_KEY :> DEFAULT_ACCENT),
      (ACCENT_KEY :> DEFAULT_ACCENT \o <<"f", "f">>),
      (ACCENT_KEY :> <<"#", "3", "5", "8">>),
      (ACCENT_KEY :> <<"#", "f", "f", "f">>),
      PresetNoAccent }

InitRecolor ==
    /\ \E preset \in RecolorPresets : InPipeline("recolor", preset)
    /\ colors_template = InstalledTemplates
    /\ \E svg \in GeneratedSvgs :
          switch_on_source =
              [v \in shell_versions |-> IF v = 43 THEN svg ELSE PristineSvg]
    /\ out \in {[PristineOut EXCEPT !.dir = TRUE], ExistingOut}
    /\ steps = <<"capture", "render", "dirs", "launch">>

\* the caller sets other variables and calls recolor_assets once more
RecolorAgain ==
    /\ pc = "activate"
    /\ Len(recolor_calls) < MaxRecolorCalls
    /\ \E preset \in RecolorPresets :
          inst' = [inst EXCEPT !.variables = preset]
    /\ pc' = "recolor"
    /\ steps' = <<"capture", "render", "dirs", "launch">>
    /\ UNCHANGED <<shell_ver, colors_template, colors_source, switches_source,
                   switch_on_source, out, settings_name, writes, result, log,
                   launch, procs, enoent, arg, recolor_calls, runs>>

NextRecolor ==
    \/ RecolorAssets
    \/ RecolorAgain

SpecRecolor == InitRecolor /\ [][NextRecolor]_vars

---------------------------------------------------------------------------
(* Vocabulary of the properties *)

Range(seq) == {seq[i] : i \in 1..Len(seq)}

IsPrefix(s, t) == Len(s) <= Len(t) /\ s = SubSeq(t, 1, Len(s))

SupportedTargets == {Some(v) : v \in shell_versions}

\* apply_theme has returned normally to its caller
ApplyReturned == pc = "idle" /\ inst.used /\ result = Returned

\* apply_theme has raised to its caller
ApplyRaised == pc = "idle" /\ inst.used /\ result.status = "raised"

\* the order of the pipeline as documented
DocumentedOrder ==
    <<"capture", "render", "dirs", "launch", "recolor", "activate">>

\* positions of a line where a placeholder {{...}} opens: "{{" with a "}}"
\* after it and no line break between the two
Opens(line) ==
    {i \in 1..Len(line) :
        /\ i + 3 <= Len(line)
        /\ line[i] = "{" /\ line[i + 1] = "{"
        /\ \E j \in (i + 2)..(Len(line) - 1) :
              /\ line[j] = "}" /\ line[j + 1] = "}"
              /\ \A m \in (i + 2)..(j - 1) : line[m] # "\n"}

HasPlaceholder(line) == Opens(line) # {}

\* the name inside the leftmost placeholder of a line
FirstKey(line) ==
    LET i == CHOOSE o \in Opens(line) : \A o2 \in Opens(line) : o <= o2
        closes == {j \in (i + 2)..(Len(line) - 1) :
                      line[j] = "}" /\ line[j + 1] = "}"}
        j == CHOOSE c \in closes : \A c2 \in closes : c <= c2
    IN  SubSeq(line, i + 2, j - 1)

\* the state the pipeline of SpecRender started from is untouched beyond
\* what insert_variables itself may write
NothingAfterRender ==
    /\ out \in {PristineOut, ExistingOut}
    /\ launch = "none" /\ procs = 0
    /\ switch_on_source[43] = PristineSvg
    /\ switches_source[43] = "stale"
    /\ recolor_calls = <<>>
    /\ settings_name = "" /\ writes = <<>>

\* toggle-on.svg as the i-th recolor_assets call of SpecRecolor left it
AfterCall(i) ==
    IF i < Len(recolor_calls) THEN recolor_calls[i + 1].before
    ELSE switch_on_source[43]

---------------------------------------------------------------------------
(* Properties *)

\* C1: every instance whose construction succeeded has a resolved shell
\* version in the supported set {42, 43}; a detected version outside it
\* makes construction fail, so no instance has an unset version.
C1_InstanceVersionSupported ==
    inst.exists => inst.version_target \in SupportedTargets

\* C2: an explicitly given version decides construction: a version in
\* {42, 43} yields an instance resolved to it, any other given version
\* (0 included) makes construction fail instead of falling back to
\* detection.
C2_ExplicitVersionDecides ==
    (runs > 0 /\ arg # None) =>
        IF arg \in SupportedTargets
        THEN inst.exists /\ inst.version_target = arg
        ELSE ~inst.exists /\ result.status = "raised"

\* C3: when apply_theme has returned successfully on a pristine install
\* (shell 43, preset with every key, accent #ff0000), gnome-shell.css
\* exists, the output toggle-on.svg carries fill:#ff0000 instead of the
\* default fill, and the theme key is "gradience-shell".
C3_CssPresentAtReturn ==
    (ApplyReturned /\ runs = 1 /\ inst.version_target = Some(43)
        /\ inst.variables = PresetFull) =>
        /\ out.css
        /\ out.on_exists
        /\ Contains(out.on, FILL_PREFIX \o RED)
        /\ ~Contains(out.on, FILL_DEFAULT)
        /\ settings_name = GRADIENCE_SHELL

\* C4: the steps of create_theme complete in the documented order, one
\* after the other; the theme key is written only in a run in which
\* rendering, directory preparation and recoloring completed; nothing is
\* written into the output directory or its assets subdirectory before
\* that directory exists.
C4_StrictOrder ==
    /\ IsPrefix(steps, DocumentedOrder)
    /\ pc # "idle" => pc = DocumentedOrder[Len(steps) + 1]
    /\ writes # <<>> => {"render", "dirs", "recolor"} \subseteq Range(steps)
    /\ procs > 0 => out.dir
    /\ ~enoent
    /\ out.css => out.dir
    /\ (out.on_exists \/ out.off_exists) => out.assets /\ out.dir

C4_Witness ==
    /\ ApplyReturned /\ steps = DocumentedOrder
    /\ out.css /\ out.on_exists /\ writes # <<>>

\* C5 as stated: whenever the template references a placeholder whose key
\* the mapping lacks, rendering fails and nothing is written.
C5_AnyMissingKeyAborts ==
    (pc # "render"
        /\ \E k \in {KEY_A, KEY_B} :
              /\ k \notin DOMAIN inst.variables
              /\ Contains(colors_template[43], Placeholder(k))) =>
        /\ result = Raised("KeyError")
        /\ colors_source[43] = StaleColors
        /\ NothingAfterRender

\* C5 amended: when the leftmost placeholder of some template line names
\* a key the mapping lacks, rendering fails with KeyError, the run is
\* aborted, _colors.scss keeps its previous content, no directory is
\* created, the compiler is not launched, no asset is modified and the
\* theme setting is not written.
C5_FirstMissingKeyAborts ==
    (pc # "render"
        /\ \E i \in 1..Len(Lines(colors_template[43])) :
              LET line == Lines(colors_template[43])[i]
              IN  /\ HasPlaceholder(line)
                  /\ FirstKey(line) \notin DOMAIN inst.variables) =>
        /\ pc = "idle"
        /\ result = Raised("KeyError")
        /\ steps = <<"capture">>
        /\ colors_source[43] = StaleColors
        /\ NothingAfterRender

C5_Witness ==
    /\ ApplyRaised /\ result = Raised("KeyError")
    /\ steps = <<"capture">>
    /\ KEY_B \notin DOMAIN inst.variables
    /\ colors_template[43] =
          Placeholder(KEY_A) \o NEWLINE \o Placeholder(KEY_B)
    /\ colors_source[43] = StaleColors

\* C6: a call of set_shell_theme writes the key "name" exactly twice,
\* first the empty string and then "gradience-shell", whatever the key
\* held before; afterwards the key holds "gradience-shell".
C6_TwoWritesInOrder ==
    /\ writes \in {<<>>, <<"", "gradience-shell">>}
    /\ writes # <<>> <=> "activate" \in Range(steps)
    /\ writes # <<>> => settings_name = "gradience-shell"

C6_Witness ==
    /\ runs = 2 /\ ApplyReturned
    /\ writes = <<"", "gradience-shell">>
    /\ Len(recolor_calls) = 2 /\ out.assets

\* C7 as stated: the second of two recolor_assets calls on the shipped
\* toggle-on.svg, the default not being restored in between, leaves the
\* asset unchanged, for every pair of accent values.
C7_SecondRunNoChange ==
    (Len(recolor_calls) >= 2 /\ recolor_calls[1].before = PristineSvg) =>
        AfterCall(2) = recolor_calls[2].before

\* C7 amended: each run replaces exactly the occurrences of the literal
\* fill:#3584e4 by fill:<accent>; a run leaves the asset unchanged exactly
\* when the asset holds no fill:#3584e4 or the accent is #3584e4; on the
\* shipped asset the second run changes nothing when the first accent
\* does not begin with #3584e4, and replaces again when it does and the
\* second accent is another colour.
C7_SecondRunNoChangeUnlessLiteralSurvives ==
    /\ \A i \in 1..Len(recolor_calls) :
          LET c == recolor_calls[i]
              n == Count(c.before, FILL_DEFAULT)
          IN  /\ Len(AfterCall(i)) =
                     Len(c.before) + n * (Len(c.accent) - Len(DEFAULT_ACCENT))
              /\ Count(AfterCall(i), FILL_PREFIX \o c.accent) >= n
              /\ (AfterCall(i) = c.before) <=>
                     (n = 0 \/ c.accent = DEFAULT_ACCENT)
    /\ (Len(recolor_calls) >= 2 /\ recolor_calls[1].before = PristineSvg) =>
          IF StartsWith(recolor_calls[1].accent, DEFAULT_ACCENT)
          THEN recolor_calls[2].accent # DEFAULT_ACCENT =>
                   AfterCall(2) # recolor_calls[2].before
          ELSE AfterCall(2) = recolor_calls[2].before

C7_Witness ==
    /\ Len(recolor_calls) = 2
    /\ recolor_calls[1].before = PristineSvg
    /\ recolor_calls[1].accent = <<"#", "f", "f", "f">>
    /\ recolor_calls[2].accent = RED
    /\ Contains(recolor_calls[2].before, FILL_PREFIX \o <<"#", "f", "f", "f">>)
    /\ switch_on_source[43] = recolor_calls[2].before

\* C8: a failure inside the pipeline surfaces from apply_theme as a
\* ThemeApplicationError and has been logged.
C8_FailuresLoggedAndWrapped ==
    ApplyRaised =>
        /\ result.kind = "ThemeApplicationError"
        /\ "Failed to apply a theme for GNOME Shell." \in Range(log)

\* C9: a failure to launch the compiler is logged by compile_sass and
\* does not abort the pipeline: recoloring and activation still run, and
\* apply_theme returns normally with the theme key set although this run
\* started no compiler.
C9_LaunchFailureDoesNotAbort ==
    launch = "failed" =>
        /\ "launch" \in Range(steps)
        /\ "Failed to compile SCSS source files using external sassc program."
              \in Range(log)
        /\ pc \in {"recolor", "activate", "idle"}
        /\ ApplyRaised => steps = SubSeq(DocumentedOrder, 1, 4)
        /\ ApplyReturned =>
              /\ steps = DocumentedOrder
              /\ settings_name = "gradience-shell"
        /\ runs = 1 => procs = 0 /\ ~out.css

C9_Witness ==
    /\ launch = "failed" /\ ApplyReturned
    /\ settings_name = "gradience-shell"
    /\ runs = 1 /\ ~out.css /\ out.on_exists

\* C10: rendering keeps the lines of the template in number and order; a
\* line without placeholder is copied unchanged; in a line with one, every
\* occurrence of the leftmost placeholder is replaced by the value of its
\* key and any other placeholder stays as it is; the result replaces the
\* previous content of _colors.scss.
C10_RenderedLineByLine ==
    "render" \in Range(steps) =>
        LET src == Lines(colors_template[43])
            dst == Lines(colors_source[43])
        IN  /\ Len(dst) = Len(src)
            /\ \A i \in 1..Len(src) :
                  IF ~HasPlaceholder(src[i]) THEN dst[i] = src[i]
                  ELSE LET key == FirstKey(src[i])
                           ph == Placeholder(key)
                       IN  /\ key \in DOMAIN inst.variables
                           /\ ~Contains(dst[i], ph)
                           /\ Replace(dst[i], inst.variables[key], ph) = src[i]
                           /\ \A k \in {KEY_A, KEY_B} \ {key} :
                                 Count(dst[i], Placeholder(k)) =
                                     Count(src[i], Placeholder(k))

C10_Witness ==
    /\ "render" \in Range(steps)
    /\ colors_template[43] =
          Placeholder(KEY_A) \o Placeholder(KEY_B) \o Placeholder(KEY_A)
    /\ colors_source[43] = RED \o Placeholder(KEY_B) \o RED

====
